---- MODULE Spec2Model ----
(***************************************************************************)
(* A model of tidstrom's StreamBuffer (src/blickexport/blickexport.go,     *)
(* package tidstrom), its options (src/streambuffer/streambuffer_opts.go)  *)
(* and its bufferPool (src/unnamed/part_003).                              *)
(*                                                                         *)
(* Threads: callers of Start, callers of Stop, callers of GetSnapshot, a   *)
(* producer sending on Input(), the wall clock, and the processLoop        *)
(* goroutines that Start spawns.  A step is one atomic operation of the    *)
(* code (an atomic load/store/CAS, a channel operation, a critical section *)
(* of shutdownMu) or one stretch of code run while sb.mu is held.          *)
(*                                                                         *)
(* Byte slices are references: a slice is (array id, length), the arrays   *)
(* live in heap, and the pool holds array ids.  Time is an integer clock;  *)
(* 0 is the zero time.Time{}.                                              *)
(***************************************************************************)
EXTENDS Bags, FiniteSets, Integers, Sequences, TLC

(* ------------------------------------------------------------------ *)
(* Configuration of the engine under analysis (options, scaled down).  *)
(* ------------------------------------------------------------------ *)

\* WithCapacity(2): ring slots.
Capacity == 2

\* WithWindow(1): retention window, in clock ticks.
Window == 1

\* WithFrameSize(1): capacity of the arrays the pool allocates.
FrameSize == 1

\* WithMaxRecycleSize(8): largest array capacity the pool takes back.
MaxRecycleSize == 8

\* WithInputBuffer(2): depth of the ingress channel.
InputDepth == 2

\* make(chan snapshotRequest, 10): depth of the snapshot-request channel.
SnapReqDepth == 10

(* ------------------------------------------------------------------ *)
(* Bounds of the exploration.                                          *)
(* ------------------------------------------------------------------ *)

\* Payloads the producer sends in a run.
MaxFrames == 3

\* Last value of the clock.
MaxTime == 3

\* Snapshots delivered before a caller stops calling again.
MaxSnapshots == 2

(* ------------------------------------------------------------------ *)
(* Threads.                                                            *)
(* ------------------------------------------------------------------ *)

StartThreads == {"s1", "s2"}
StopThreads == {"t1", "t2"}
SnapThreads == {"g1"}
MetricsThreads == {"m1"}

\* A processLoop goroutine is named after the Start call that spawned it.
Workers == StartThreads

\* Payloads a producer may send: one that fits a new pooled array, one that
\* outgrows it into an array that is still recycled, one that grows into an
\* array too large to recycle.
Payloads == {<<1>>, <<2, 2>>, <<3, 3, 3, 3, 3, 3, 3, 3, 3>>}

NoThread == "none"

(* ------------------------------------------------------------------ *)
(* Byte slices, the heap and the buffer pool.                          *)
(* ------------------------------------------------------------------ *)

\* The nil slice.
NilSlice == [buf |-> 0, len |-> 0]

\* Frame{}: the zero value of a ring slot.
ZeroFrame == [Data |-> NilSlice, Timestamp |-> 0, Sequence |-> 0]

Min(a, b) == IF a <= b THEN a ELSE b

Zeros(n) == [i \in 1..n |-> 0]

\* The least array id not in use.
Fresh(used) == CHOOSE i \in 1..(Cardinality(used) + 1) :
                  i \notin used /\ \A j \in 1..(i - 1) : j \in used

\* cap(s)
CapOf(h, s) == IF s.buf \in DOMAIN h THEN h[s.buf].cap ELSE 0

\* The bytes a slice shows: the first len bytes of its array.
Bytes(h, s) == IF s.buf \in DOMAIN h THEN SubSeq(h[s.buf].bytes, 1, s.len) ELSE <<>>

\* The allocator's small size classes, in bytes.
SizeClasses == {8, 16, 24, 32, 48, 64}

\* roundupsize: the least size class that holds n bytes.
RoundUpSize(n) == CHOOSE c \in SizeClasses :
                    c >= n /\ \A d \in SizeClasses : d >= n => c <= d

\* Go's growslice for a byte slice of capacity old (< 256) that must hold need
\* bytes: the larger of need and twice old, rounded up to a size class.
GrowCap(old, need) == RoundUpSize(IF need > 2 * old THEN need ELSE 2 * old)

\* make([]byte, 0, n): a new zeroed array.
NewArray(h, n) ==
    LET id == Fresh(DOMAIN h)
    IN [heap |-> [i \in DOMAIN h \cup {id} |->
                    IF i = id THEN [cap |-> n, bytes |-> Zeros(n)] ELSE h[i]],
        s |-> [buf |-> id, len |-> 0]]

\* append(s, data...): in place when the capacity suffices, else into a new array.
AppendBytes(h, s, data) ==
    LET n == s.len + Len(data)
        old == Bytes(h, s)
    IN IF Len(data) = 0 THEN [heap |-> h, s |-> s]
       ELSE IF n <= CapOf(h, s)
       THEN [heap |-> [h EXCEPT ![s.buf].bytes =
                          [i \in 1..Len(@) |->
                             IF i <= s.len THEN @[i]
                             ELSE IF i <= n THEN data[i - s.len] ELSE @[i]]],
             s |-> [buf |-> s.buf, len |-> n]]
       ELSE LET c == GrowCap(CapOf(h, s), n)
                id == Fresh(DOMAIN h)
            IN [heap |-> [i \in DOMAIN h \cup {id} |->
                            IF i = id
                            THEN [cap |-> c, bytes |-> old \o data \o Zeros(c - n)]
                            ELSE h[i]],
                s |-> [buf |-> id, len |-> n]]

\* A get that hands out a pooled buffer at its full capacity instead of
\* reslicing it to length 0.
PoolGetStale(p, h) ==
    { [pool |-> p (-) SetToBag({b}), heap |-> h, s |-> [buf |-> b, len |-> h[b].cap]] :
        b \in BagToSet(p) }
    \cup
    { LET a == NewArray(h, FrameSize)
      IN [pool |-> p, heap |-> a.heap, s |-> a.s] }

\* bufferPool.get: sync.Pool.Get hands out any pooled array, or ignores the
\* pool and calls New; the result is resliced to length 0.  The set of outcomes.
PoolGet(p, h) ==
    { [pool |-> p (-) SetToBag({b}), heap |-> h, s |-> [buf |-> b, len |-> 0]] :
        b \in BagToSet(p) }
    \cup
    { LET a == NewArray(h, FrameSize)
      IN [pool |-> p, heap |-> a.heap, s |-> a.s] }

\* A put that keeps every array that is not nil.
PoolPutAny(p, h, s) == IF s.buf # 0 THEN p (+) SetToBag({s.buf}) ELSE p

\* bufferPool.put: keeps the array unless the slice is nil or too large.
PoolPut(p, h, s) ==
    IF s.buf # 0 /\ CapOf(h, s) <= MaxRecycleSize
    THEN p (+) SetToBag({s.buf})
    ELSE p

(* ------------------------------------------------------------------ *)
(* NewStreamBuffer and its options.                                    *)
(* ------------------------------------------------------------------ *)

\* defaultWindowDuration = 30 * time.Second, in seconds.
DefaultWindowDuration == 30

\* defaultBufferCapacity
DefaultBufferCapacity == 300

\* frameSize: 1024 * 1024
DefaultFrameSize == 1024 * 1024

\* defaultMaxBufferSize = 8 * 1024 * 1024
DefaultMaxBufferSize == 8 * 1024 * 1024

\* make(chan []byte, 100)
DefaultInputDepth == 100

\* The five options; an option is its kind and its argument.
OptionKinds == {"WithWindow", "WithCapacity", "WithFrameSize",
                "WithMaxRecycleSize", "WithInputBuffer"}

\* Option arguments tried: negative, zero and positive ones.
MaxOptValue == 2
OptValues == (0 - 1)..MaxOptValue

Options == [kind : OptionKinds, val : OptValues]

\* Options passed to one constructor call.
MaxOpts == 2
OptionLists == UNION {[1..n -> Options] : n \in 0..MaxOpts}

\* A guard that also lets zero through.
PositiveOrZero(n) == n >= 0

\* if d > 0, if n > 0, if size > 0
Positive(n) == n > 0

\* The struct literal of NewStreamBuffer: the fields before any option runs.
\* input is the depth of sb.input, 0 for the nil channel; framesLen is
\* len(sb.frames); poolSizeHint and poolMaxSize are the bufferPool's, 0 while
\* sb.bufferPool is nil.
Allocated ==
    [window |-> DefaultWindowDuration, capacity |-> DefaultBufferCapacity,
     frameSize |-> DefaultFrameSize, maxRecycleSize |-> DefaultMaxBufferSize,
     input |-> 0, framesLen |-> 0, poolSizeHint |-> 0, poolMaxSize |-> 0,
     applied |-> 0, built |-> FALSE]

\* opt(sb) for one option.
ApplyOption(s, o) ==
    IF o.kind = "WithWindow"
    THEN (IF Positive(o.val) THEN [s EXCEPT !.window = o.val] ELSE s)
    ELSE IF o.kind = "WithCapacity"
    THEN (IF Positive(o.val) THEN [s EXCEPT !.capacity = o.val] ELSE s)
    ELSE IF o.kind = "WithFrameSize"
    THEN (IF Positive(o.val) THEN [s EXCEPT !.frameSize = o.val] ELSE s)
    ELSE IF o.kind = "WithMaxRecycleSize"
    THEN (IF Positive(o.val) THEN [s EXCEPT !.maxRecycleSize = o.val] ELSE s)
    ELSE (IF s.input = 0 /\ Positive(o.val) THEN [s EXCEPT !.input = o.val] ELSE s)

\* The end of NewStreamBuffer: the ring, the bufferPool (newBufferPool with
\* withMaxBufferSize) and the default ingress channel.
Finish(s) ==
    [s EXCEPT !.framesLen = s.capacity,
              !.poolSizeHint = s.frameSize,
              !.poolMaxSize = IF Positive(s.maxRecycleSize) THEN s.maxRecycleSize
                              ELSE DefaultMaxBufferSize,
              !.input = IF s.input = 0 THEN DefaultInputDepth ELSE s.input,
              !.built = TRUE]

\* for _, opt := range opts { opt(sb) }
RECURSIVE ApplyAll(_, _, _)
ApplyAll(s, os, i) ==
    IF i > Len(os) THEN s
    ELSE ApplyAll([ApplyOption(s, os[i]) EXCEPT !.applied = i], os, i + 1)

\* NewStreamBuffer(opts...)
NewStreamBuffer(os) == Finish(ApplyAll(Allocated, os, 1))

\* The options of the engine under analysis.
ModelOptions ==
    <<[kind |-> "WithCapacity", val |-> Capacity],
      [kind |-> "WithWindow", val |-> Window],
      [kind |-> "WithFrameSize", val |-> FrameSize],
      [kind |-> "WithMaxRecycleSize", val |-> MaxRecycleSize],
      [kind |-> "WithInputBuffer", val |-> InputDepth]>>

(* ------------------------------------------------------------------ *)
(* State.                                                              *)
(* ------------------------------------------------------------------ *)

VARIABLES
    running,          \* sb.running (atomic.Bool)
    finalStopped,     \* sb.finalStopped (atomic.Bool)
    shutdown,         \* sb.shutdown: a channel id, 0 for nil (guarded by shutdownMu)
    closedChans,      \* the shutdown channels that have been closed
    nchans,           \* shutdown channels made so far
    frames,           \* sb.frames: the ring, indexed 0..Capacity-1
    head,             \* sb.head
    count,            \* sb.count
    nextSeq,          \* sb.nextSeq
    lastFrameTime,    \* sb.lastFrameTime
    mu,               \* the thread holding sb.mu for writing, or NoThread
    input,            \* sb.input: the queued payloads (slices of producer arrays)
    inputClosed,      \* whether a producer has closed sb.input
    snapReq,          \* sb.snapReq: queued requests (call ids)
    pool,             \* bufferPool.pool: a bag of array ids
    heap,             \* the arrays reachable from the pool, the ring and snapshots
    framesProcessed,  \* sb.framesProcessed
    framesDropped,    \* sb.framesDropped
    framesTrimmed,    \* sb.framesTrimmed
    snapshotsSent,    \* sb.snapshotsSent
    now,              \* the wall clock
    wpc,              \* processLoop: position of each worker
    wch,              \* processLoop: shutdownCh
    wreq,             \* processLoop: req
    wsnap,            \* processLoop: snapshot
    wdata,            \* processFrame: data
    wnow,             \* processFrame: now
    spc,              \* position of each Start call
    tpc,              \* position of each Stop call
    tdi,              \* Stop: loop index i of the drain
    gpc,              \* position of each GetSnapshot caller
    gres,             \* GetSnapshot: what the call returned
    ctxDone,          \* the callers whose context is done
    reply,            \* resultChan of each call: empty or one snapshot
    nsent,            \* payloads sent on Input()
    ingested,         \* history: the payload and timestamp given to each sequence number
    mpc,              \* position of each GetMetrics caller
    mres,             \* GetMetrics: the Metrics value being filled in
    opts,             \* NewStreamBuffer: the options passed to the constructor
    sb,               \* NewStreamBuffer: the configuration fields of the engine
    opc               \* position of the other callers' GetSnapshot call

lifeVars == <<running, finalStopped, shutdown, closedChans, nchans>>
ringVars == <<frames, head, count, nextSeq, lastFrameTime>>
memVars == <<pool, heap>>
chanVars == <<input, inputClosed, snapReq, nsent>>
metricVars == <<framesProcessed, framesDropped, framesTrimmed, snapshotsSent>>
workerVars == <<wpc, wch, wreq, wsnap, wdata, wnow>>
callVars == <<spc, tpc, tdi>>
snapVars == <<gpc, gres, ctxDone, reply>>
metVars == <<mpc, mres>>
ctorVars == <<opts, sb>>

vars == <<lifeVars, ringVars, memVars, chanVars, metricVars, workerVars, callVars,
          snapVars, mu, now, ingested, metVars, ctorVars, opc>>

\* Metrics{}, with the fields the engine computes from its state.
NoMetrics == [FramesProcessed |-> 0, FramesDropped |-> 0, FramesTrimmed |-> 0,
              SnapshotsSent |-> 0, FrameCount |-> 0, Capacity |-> 0,
              LastFrameTime |-> 0]

\* Snapshot{}
EmptySnap == [Frames |-> <<>>, StartTime |-> 0, EndTime |-> 0, Timestamp |-> 0]

NoResult == [kind |-> "none", snap |-> EmptySnap]

SnapBufs(sn) == {sn.Frames[i].Data.buf : i \in 1..Len(sn.Frames)}

\* The arrays of payloads in flight, which their producers own.
ProducerBufs == {input[i].buf : i \in 1..Len(input)} \cup {wdata[w].buf : w \in Workers}

\* The arrays some slice still refers to.
LiveIds ==
    (BagToSet(pool) \cup ProducerBufs
     \cup {frames[i].Data.buf : i \in 0..(Capacity - 1)}
     \cup UNION {SnapBufs(wsnap[w]) : w \in Workers}
     \cup UNION {SnapBufs(reply[c][1]) : c \in {d \in SnapThreads : reply[d] # <<>>}}
     \cup UNION {SnapBufs(gres[g].snap) : g \in SnapThreads}) \ {0}

\* Garbage collection: arrays nothing refers to after the step are forgotten.
Gc(h) == [i \in DOMAIN h \cap LiveIds' |-> h[i]]

\* NewStreamBuffer: the state of the engine after construction.
InitEngine ==
    /\ running = FALSE
    /\ finalStopped = FALSE
    /\ shutdown = 1
    /\ closedChans = {}
    /\ nchans = 1
    /\ frames = [i \in 0..(Capacity - 1) |-> ZeroFrame]
    /\ head = 0
    /\ count = 0
    /\ nextSeq = 0
    /\ lastFrameTime = 0
    /\ mu = NoThread
    /\ input = <<>>
    /\ inputClosed = FALSE
    /\ snapReq = <<>>
    /\ pool = EmptyBag
    /\ heap = [i \in {} |-> 0]
    /\ framesProcessed = 0
    /\ framesDropped = 0
    /\ framesTrimmed = 0
    /\ snapshotsSent = 0
    /\ now = 1
    /\ wpc = [w \in Workers |-> "none"]
    /\ wch = [w \in Workers |-> 0]
    /\ wreq = [w \in Workers |-> NoThread]
    /\ wsnap = [w \in Workers |-> EmptySnap]
    /\ wdata = [w \in Workers |-> NilSlice]
    /\ wnow = [w \in Workers |-> 0]
    /\ spc = [s \in StartThreads |-> "idle"]
    /\ tpc = [t \in StopThreads |-> "idle"]
    /\ tdi = [t \in StopThreads |-> 0]
    /\ gpc = [g \in SnapThreads |-> "idle"]
    /\ gres = [g \in SnapThreads |-> NoResult]
    /\ ctxDone = {}
    /\ reply = [g \in SnapThreads |-> <<>>]
    /\ nsent = 0
    /\ ingested = <<>>
    /\ mpc = [m \in MetricsThreads |-> "idle"]
    /\ mres = [m \in MetricsThreads |-> NoMetrics]
    /\ opc = "idle"

\* The engine under analysis, constructed with ModelOptions.
Init ==
    /\ InitEngine
    /\ opts = ModelOptions
    /\ sb = NewStreamBuffer(ModelOptions)

(* ------------------------------------------------------------------ *)
(* Start and Stop.                                                     *)
(* ------------------------------------------------------------------ *)

\* Start: if sb.finalStopped.Load() { return }
StartCheck(s) ==
    /\ spc[s] = "idle"
    /\ spc' = [spc EXCEPT ![s] = IF finalStopped THEN "done" ELSE "cas"]
    /\ UNCHANGED <<lifeVars, ringVars, memVars, chanVars, metricVars, workerVars,
                   tpc, tdi, snapVars, mu, now, ingested, metVars, ctorVars, opc>>

\* Start: sb.running.CompareAndSwap(false, true)
StartCAS(s) ==
    /\ spc[s] = "cas"
    /\ IF running
       THEN /\ spc' = [spc EXCEPT ![s] = "done"]
            /\ UNCHANGED running
       ELSE /\ running' = TRUE
            /\ spc' = [spc EXCEPT ![s] = "make"]
    /\ UNCHANGED <<finalStopped, shutdown, closedChans, nchans, ringVars, memVars,
                   chanVars, metricVars, workerVars, tpc, tdi, snapVars, mu, now,
                   ingested, metVars, ctorVars, opc>>

\* Start: under shutdownMu, if sb.shutdown == nil { sb.shutdown = make(chan struct{}) }
StartMake(s) ==
    /\ spc[s] = "make"
    /\ IF shutdown = 0
       THEN /\ shutdown' = nchans + 1
            /\ nchans' = nchans + 1
       ELSE UNCHANGED <<shutdown, nchans>>
    /\ spc' = [spc EXCEPT ![s] = "go"]
    /\ UNCHANGED <<running, finalStopped, closedChans, ringVars, memVars, chanVars,
                   metricVars, workerVars, tpc, tdi, snapVars, mu, now, ingested, metVars, ctorVars, opc>>

\* Start: go sb.processLoop()
StartGo(s) ==
    /\ spc[s] = "go"
    /\ wpc' = [wpc EXCEPT ![s] = "top"]
    /\ spc' = [spc EXCEPT ![s] = "done"]
    /\ UNCHANGED <<lifeVars, ringVars, memVars, chanVars, metricVars, wch, wreq,
                   wsnap, wdata, wnow, tpc, tdi, snapVars, mu, now, ingested, metVars, ctorVars, opc>>

\* A Stop that goes on whatever running holds.
StopCASAlways(t) ==
    /\ tpc[t] = "idle"
    /\ running' = FALSE
    /\ tpc' = [tpc EXCEPT ![t] = "final"]
    /\ UNCHANGED <<finalStopped, shutdown, closedChans, nchans, ringVars, memVars,
                   chanVars, metricVars, workerVars, spc, tdi, snapVars, mu, now,
                   ingested, metVars, ctorVars, opc>>

\* Stop: sb.running.CompareAndSwap(true, false)
StopCAS(t) ==
    /\ tpc[t] = "idle"
    /\ IF running
       THEN /\ running' = FALSE
            /\ tpc' = [tpc EXCEPT ![t] = "final"]
       ELSE /\ tpc' = [tpc EXCEPT ![t] = "noop"]
            /\ UNCHANGED running
    /\ UNCHANGED <<finalStopped, shutdown, closedChans, nchans, ringVars, memVars,
                   chanVars, metricVars, workerVars, spc, tdi, snapVars, mu, now,
                   ingested, metVars, ctorVars, opc>>

\* Stop: sb.finalStopped.Store(true)
StopFinal(t) ==
    /\ tpc[t] = "final"
    /\ finalStopped' = TRUE
    /\ tpc' = [tpc EXCEPT ![t] = "close"]
    /\ UNCHANGED <<running, shutdown, closedChans, nchans, ringVars, memVars,
                   chanVars, metricVars, workerVars, spc, tdi, snapVars, mu, now,
                   ingested, metVars, ctorVars, opc>>

\* Stop: under shutdownMu, if sb.shutdown != nil { close(sb.shutdown); sb.shutdown = nil }
StopClose(t) ==
    /\ tpc[t] = "close"
    /\ IF shutdown # 0
       THEN /\ closedChans' = closedChans \cup {shutdown}
            /\ shutdown' = 0
       ELSE UNCHANGED <<shutdown, closedChans>>
    /\ tpc' = [tpc EXCEPT ![t] = "lock"]
    /\ UNCHANGED <<running, finalStopped, nchans, ringVars, memVars, chanVars,
                   metricVars, workerVars, spc, tdi, snapVars, mu, now, ingested, metVars, ctorVars, opc>>

\* Stop: sb.mu.Lock()
StopLock(t) ==
    /\ tpc[t] = "lock"
    /\ mu = NoThread
    /\ mu' = t
    /\ tdi' = [tdi EXCEPT ![t] = 0]
    /\ tpc' = [tpc EXCEPT ![t] = "drain"]
    /\ UNCHANGED <<lifeVars, ringVars, memVars, chanVars, metricVars, workerVars,
                   spc, snapVars, now, ingested, metVars, ctorVars, opc>>

\* idx := (sb.head - sb.count + i + sb.capacity) % sb.capacity
RingIdx(h, c, i) == (h - c + i + Capacity) % Capacity

\* A release that leaves the slot's payload in place.
ClearedKeep(f) == f

\* sb.frames[idx].Data = nil
Cleared(f) == [f EXCEPT !.Data = NilSlice]

\* Stop: one iteration of the drain loop, or sb.mu.Unlock() after the last.
StopDrain(t) ==
    /\ tpc[t] = "drain"
    /\ IF tdi[t] < count
       THEN LET idx == RingIdx(head, count, tdi[t])
            IN /\ pool' = PoolPut(pool, heap, frames[idx].Data)
               /\ frames' = [frames EXCEPT ![idx] = Cleared(@)]
               /\ tdi' = [tdi EXCEPT ![t] = @ + 1]
               /\ UNCHANGED <<mu, tpc>>
       ELSE /\ mu' = NoThread
            /\ tdi' = [tdi EXCEPT ![t] = 0]
            /\ tpc' = [tpc EXCEPT ![t] = "done"]
            /\ UNCHANGED <<frames, pool>>
    /\ UNCHANGED <<lifeVars, head, count, nextSeq, lastFrameTime, chanVars,
                   metricVars, workerVars, spc, snapVars, now, ingested, metVars, ctorVars, opc>>
    /\ heap' = Gc(heap)

(* ------------------------------------------------------------------ *)
(* processFrame and createSnapshot.                                    *)
(* ------------------------------------------------------------------ *)

\* oldest := (sb.head - sb.count + sb.capacity) % sb.capacity
OldestIdx(h, c) == (h - c + Capacity) % Capacity

\* A comparison that is one tick too lenient.
BeforeLenient(t, cutoff) == t < cutoff - 1

\* A comparison that is not strict.
BeforeOrAt(t, cutoff) == t <= cutoff

\* t.Before(cutoff)
Before(t, cutoff) == t < cutoff

\* A trim loop that, once the oldest frame lies before the cutoff, never stops
\* at a frame inside the window.
TrimAll(fr, oldest, cnt, cutoff) ==
    IF cnt > 0 /\ fr[oldest].Timestamp < cutoff THEN cnt ELSE 0

\* A trim loop that evicts nothing.
TrimNone(fr, oldest, cnt, cutoff) == 0

\* The trim loop's final value of trimmed: the frames, from the oldest on, that
\* lie before the cutoff, up to the first one that does not.
TrimCount(fr, oldest, cnt, cutoff) ==
    LET stop == {k \in 0..cnt :
                   /\ \A i \in 0..(k - 1) : Before(fr[(oldest + i) % Capacity].Timestamp, cutoff)
                   /\ k < cnt => ~Before(fr[(oldest + k) % Capacity].Timestamp, cutoff)}
    IN CHOOSE k \in stop : TRUE

\* put and clear the payloads of k slots from slot first on, in ring order.
RECURSIVE ReleaseSlots(_, _, _, _, _)
ReleaseSlots(p, h, fr, first, k) ==
    IF k = 0 THEN [pool |-> p, frames |-> fr]
    ELSE ReleaseSlots(PoolPut(p, h, fr[first].Data), h,
                      [fr EXCEPT ![first] = Cleared(@)],
                      (first + 1) % Capacity, k - 1)

\* newBuf = append(newBuf, data...): the payload is copied into the pooled buffer.
StoreCopy(h, newBuf, data) == AppendBytes(h, newBuf, Bytes(h, data))

\* A counter that is never advanced.
NextSeqStuck(n) == n

\* sb.nextSeq++ (a uint64 that MaxFrames ingestions cannot wrap)
NextSeq(n) == n + 1

\* An ingestion that is not counted.
CountProcessedLost(n) == n

\* sb.framesProcessed.Add(1)
CountProcessed(n) == n + 1

\* processFrame: sb.mu.Lock(); now := time.Now()
ProcessFrameLock(w) ==
    /\ wpc[w] = "pf_lock"
    /\ mu = NoThread
    /\ mu' = w
    /\ wnow' = [wnow EXCEPT ![w] = now]
    /\ wpc' = [wpc EXCEPT ![w] = "pf_store"]
    /\ UNCHANGED <<lifeVars, ringVars, memVars, chanVars, metricVars, wch, wreq,
                   wsnap, wdata, callVars, snapVars, now, ingested, metVars, ctorVars, opc>>

\* A count that goes up with every stored frame.
CountAfterStoreUnchecked(c) == c + 1

\* if sb.count < sb.capacity { sb.count++ }
CountAfterStore(c) == IF c < Capacity THEN c + 1 ELSE c

\* processFrame, lines 225-254: recycle the slot about to be overwritten, copy
\* the payload into a pooled buffer, store the frame, advance head and count.
ProcessFrameStore(w) ==
    /\ wpc[w] = "pf_store"
    /\ LET full == count = Capacity
           oldestIdx == head % Capacity
           p1 == IF full THEN PoolPut(pool, heap, frames[oldestIdx].Data) ELSE pool
           fr1 == IF full THEN [frames EXCEPT ![oldestIdx].Data = NilSlice] ELSE frames
       IN \E g \in PoolGet(p1, heap) :
            LET a == StoreCopy(g.heap, g.s, wdata[w])
            IN /\ frames' = [fr1 EXCEPT ![head] =
                               [Data |-> a.s, Timestamp |-> wnow[w], Sequence |-> nextSeq]]
               /\ pool' = g.pool
               /\ nextSeq' = NextSeq(nextSeq)
               /\ head' = (head + 1) % Capacity
               /\ count' = CountAfterStore(count)
               /\ framesProcessed' = CountProcessed(framesProcessed)
               /\ ingested' = Append(ingested, [bytes |-> Bytes(heap, wdata[w]),
                                                ts |-> wnow[w]])
               /\ wpc' = [wpc EXCEPT ![w] = "pf_stamp"]
               /\ UNCHANGED <<lifeVars, lastFrameTime, chanVars, framesDropped, framesTrimmed, snapshotsSent, wch,
                              wreq, wsnap, wdata, wnow, callVars, snapVars, mu, now,
                              metVars, ctorVars, opc>>
               /\ heap' = Gc(a.heap)

\* processFrame, line 254: sb.lastFrameTime = now
ProcessFrameStamp(w) ==
    /\ wpc[w] = "pf_stamp"
    /\ lastFrameTime' = wnow[w]
    /\ wpc' = [wpc EXCEPT ![w] = "pf_trim"]
    /\ UNCHANGED <<lifeVars, frames, head, count, nextSeq, memVars, chanVars,
                   metricVars, wch, wreq, wsnap, wdata, wnow, callVars, snapVars, mu,
                   now, ingested, metVars, ctorVars, opc>>

\* A trim that is not counted.
AddTrimmedLost(n, trimmed) == n

\* if trimmed > 0 { sb.framesTrimmed.Add(uint64(trimmed)) }
AddTrimmed(n, trimmed) == IF trimmed > 0 THEN n + trimmed ELSE n

\* processFrame, lines 256-278: trim from the oldest frame on, then unlock.
ProcessFrameTrim(w) ==
    /\ wpc[w] = "pf_trim"
    /\ LET cutoff == wnow[w] - Window
           oldest == OldestIdx(head, count)
           trimmed == TrimCount(frames, oldest, count, cutoff)
           r == ReleaseSlots(pool, heap, frames, oldest, trimmed)
       IN /\ frames' = r.frames
          /\ pool' = r.pool
          /\ count' = count - trimmed
          /\ framesTrimmed' = AddTrimmed(framesTrimmed, trimmed)
    /\ mu' = NoThread
    /\ wpc' = [wpc EXCEPT ![w] = "top"]
    /\ wdata' = [wdata EXCEPT ![w] = NilSlice]
    /\ wnow' = [wnow EXCEPT ![w] = 0]
    /\ UNCHANGED <<lifeVars, head, nextSeq, lastFrameTime, chanVars, framesProcessed,
                   framesDropped, snapshotsSent, wch, wreq, wsnap, callVars, snapVars, now, ingested, metVars, ctorVars, opc>>
    /\ heap' = Gc(heap)

\* createSnapshot's copy loop from position i on: the possible outcomes, one
\* for each way the pool may serve the gets.
RECURSIVE CopyFrames(_, _, _, _, _, _, _)
CopyFrames(fr, oldest, cnt, i, p, h, out) ==
    IF i = cnt THEN {[pool |-> p, heap |-> h, frames |-> out]}
    ELSE LET srcFrame == fr[(oldest + i) % Capacity]
         IN UNION { LET a == AppendBytes(g.heap, g.s, Bytes(g.heap, srcFrame.Data))
                    IN CopyFrames(fr, oldest, cnt, i + 1, g.pool, a.heap,
                                  Append(out, [Data |-> a.s,
                                               Timestamp |-> srcFrame.Timestamp,
                                               Sequence |-> srcFrame.Sequence]))
                    : g \in PoolGet(p, h) }

\* A createSnapshot that stamps the empty snapshot's StartTime and EndTime
\* with the current time.
SnapshotOutcomesStamped(fr, hd, cnt, p, h, t) ==
    IF cnt = 0
    THEN {[pool |-> p, heap |-> h,
           snap |-> [Frames |-> <<>>, StartTime |-> t, EndTime |-> t, Timestamp |-> t]]}
    ELSE { [pool |-> c.pool, heap |-> c.heap,
            snap |-> [Frames |-> c.frames,
                      StartTime |-> c.frames[1].Timestamp,
                      EndTime |-> c.frames[cnt].Timestamp,
                      Timestamp |-> t]]
           : c \in CopyFrames(fr, OldestIdx(hd, cnt), cnt, 0, p, h, <<>>) }

\* createSnapshot: the possible results [pool, heap, snap] at time t.
SnapshotOutcomes(fr, hd, cnt, p, h, t) ==
    IF cnt = 0
    THEN {[pool |-> p, heap |-> h,
           snap |-> [Frames |-> <<>>, StartTime |-> 0, EndTime |-> 0, Timestamp |-> t]]}
    ELSE { [pool |-> c.pool, heap |-> c.heap,
            snap |-> [Frames |-> c.frames,
                      StartTime |-> c.frames[1].Timestamp,
                      EndTime |-> c.frames[cnt].Timestamp,
                      Timestamp |-> t]]
           : c \in CopyFrames(fr, OldestIdx(hd, cnt), cnt, 0, p, h, <<>>) }

\* sb.mu.RLock() is granted when no writer holds sb.mu.
CanRLock == mu = NoThread

(* ------------------------------------------------------------------ *)
(* processLoop.                                                        *)
(* ------------------------------------------------------------------ *)

\* processLoop, lines 177-183: read sb.shutdown under shutdownMu; return if nil.
LoopTop(w) ==
    /\ wpc[w] = "top"
    /\ wch' = [wch EXCEPT ![w] = shutdown]
    /\ wpc' = [wpc EXCEPT ![w] = IF shutdown = 0 THEN "exit" ELSE "select"]
    /\ UNCHANGED <<lifeVars, ringVars, memVars, chanVars, metricVars, wreq, wsnap,
                   wdata, wnow, callVars, snapVars, mu, now, ingested, metVars, ctorVars, opc>>

\* select: case <-shutdownCh: return
SelectShutdown(w) ==
    /\ wpc[w] = "select"
    /\ wch[w] \in closedChans
    /\ wpc' = [wpc EXCEPT ![w] = "exit"]
    /\ UNCHANGED <<lifeVars, ringVars, memVars, chanVars, metricVars, wch, wreq,
                   wsnap, wdata, wnow, callVars, snapVars, mu, now, ingested, metVars, ctorVars, opc>>

\* select: case frame, ok := <-sb.input with ok: go on to processFrame(frame)
SelectInput(w) ==
    /\ wpc[w] = "select"
    /\ input # <<>>
    /\ wdata' = [wdata EXCEPT ![w] = Head(input)]
    /\ input' = Tail(input)
    /\ wpc' = [wpc EXCEPT ![w] = "pf_lock"]
    /\ UNCHANGED <<lifeVars, ringVars, memVars, inputClosed, snapReq, nsent,
                   metricVars, wch, wreq, wsnap, wnow, callVars, snapVars, mu, now,
                   ingested, metVars, ctorVars, opc>>

\* select: case frame, ok := <-sb.input with !ok (closed and drained): return
SelectInputClosed(w) ==
    /\ wpc[w] = "select"
    /\ input = <<>>
    /\ inputClosed
    /\ wpc' = [wpc EXCEPT ![w] = "exit"]
    /\ UNCHANGED <<lifeVars, ringVars, memVars, chanVars, metricVars, wch, wreq,
                   wsnap, wdata, wnow, callVars, snapVars, mu, now, ingested, metVars, ctorVars, opc>>

\* A worker that takes every request it receives for a cancelled one.
SelectSnapReqDiscard(w) ==
    /\ wpc[w] = "select"
    /\ snapReq # <<>>
    /\ snapReq' = Tail(snapReq)
    /\ wpc' = [wpc EXCEPT ![w] = "top"]
    /\ UNCHANGED <<lifeVars, ringVars, memVars, input, inputClosed, nsent,
                   metricVars, wch, wreq, wsnap, wdata, wnow, callVars, snapVars, mu, now,
                   ingested, metVars, ctorVars, opc>>

\* select: case req := <-sb.snapReq, then the inner select on req.ctx.Done()
SelectSnapReq(w) ==
    /\ wpc[w] = "select"
    /\ snapReq # <<>>
    /\ snapReq' = Tail(snapReq)
    /\ IF Head(snapReq) \in ctxDone
       THEN /\ wpc' = [wpc EXCEPT ![w] = "top"]
            /\ UNCHANGED wreq
       ELSE /\ wpc' = [wpc EXCEPT ![w] = "snap"]
            /\ wreq' = [wreq EXCEPT ![w] = Head(snapReq)]
    /\ UNCHANGED <<lifeVars, ringVars, memVars, input, inputClosed, nsent,
                   metricVars, wch, wsnap, wdata, wnow, callVars, snapVars, mu, now,
                   ingested, metVars, ctorVars, opc>>

\* snapshot := sb.createSnapshot(): the whole read-locked section.
CreateSnapshot(w) ==
    /\ wpc[w] = "snap"
    /\ CanRLock
    /\ \E o \in SnapshotOutcomes(frames, head, count, pool, heap, now) :
         /\ wsnap' = [wsnap EXCEPT ![w] = o.snap]
         /\ pool' = o.pool
         /\ wpc' = [wpc EXCEPT ![w] = "deliver"]
         /\ UNCHANGED <<lifeVars, ringVars, chanVars, metricVars, wch, wreq, wdata,
                        wnow, callVars, snapVars, mu, now, ingested, metVars, ctorVars, opc>>
         /\ heap' = Gc(o.heap)

\* select: case req.resultChan <- snapshot (line 202): the send
Deliver(w) ==
    /\ wpc[w] = "deliver"
    /\ reply[wreq[w]] = <<>>
    /\ reply' = [reply EXCEPT ![wreq[w]] = <<wsnap[w]>>]
    /\ wsnap' = [wsnap EXCEPT ![w] = EmptySnap]
    /\ wreq' = [wreq EXCEPT ![w] = NoThread]
    /\ wpc' = [wpc EXCEPT ![w] = "sent"]
    /\ UNCHANGED <<lifeVars, ringVars, memVars, chanVars, metricVars, wch, wdata,
                   wnow, callVars, gpc, gres, ctxDone, mu, now, ingested, metVars,
                   ctorVars, opc>>

\* line 203, after the send: sb.snapshotsSent.Add(1)
CountSent(w) ==
    /\ wpc[w] = "sent"
    /\ snapshotsSent' = snapshotsSent + 1
    /\ wpc' = [wpc EXCEPT ![w] = "top"]
    /\ UNCHANGED <<lifeVars, ringVars, memVars, chanVars, framesProcessed,
                   framesDropped, framesTrimmed, wch, wreq, wsnap, wdata, wnow,
                   callVars, snapVars, mu, now, ingested, metVars, ctorVars, opc>>

\* put every payload of a snapshot.
RECURSIVE PutAll(_, _, _, _)
PutAll(p, h, fs, i) ==
    IF i > Len(fs) THEN p
    ELSE PutAll(PoolPut(p, h, fs[i].Data), h, fs, i + 1)

\* select: case <-req.ctx.Done(): return the snapshot's payloads to the pool
Reclaim(w) ==
    /\ wpc[w] = "deliver"
    /\ wreq[w] \in ctxDone
    /\ pool' = PutAll(pool, heap, wsnap[w].Frames, 1)
    /\ wsnap' = [wsnap EXCEPT ![w] = EmptySnap]
    /\ wreq' = [wreq EXCEPT ![w] = NoThread]
    /\ wpc' = [wpc EXCEPT ![w] = "top"]
    /\ UNCHANGED <<lifeVars, ringVars, chanVars, metricVars, wch, wdata, wnow,
                   callVars, snapVars, mu, now, ingested, metVars, ctorVars, opc>>
    /\ heap' = Gc(heap)

\* A return from processLoop without the deferred store.
LoopExitKeepRunning(w) ==
    /\ wpc[w] = "exit"
    /\ wpc' = [wpc EXCEPT ![w] = "dead"]
    /\ wch' = [wch EXCEPT ![w] = 0]
    /\ UNCHANGED <<lifeVars, ringVars, memVars,
                   chanVars, metricVars, wreq, wsnap, wdata, wnow, callVars,
                   snapVars, mu, now, ingested, metVars, ctorVars, opc>>

\* processLoop's deferred sb.running.Store(false)
LoopExit(w) ==
    /\ wpc[w] = "exit"
    /\ running' = FALSE
    /\ wpc' = [wpc EXCEPT ![w] = "dead"]
    /\ wch' = [wch EXCEPT ![w] = 0]
    /\ UNCHANGED <<finalStopped, shutdown, closedChans, nchans, ringVars, memVars,
                   chanVars, metricVars, wreq, wsnap, wdata, wnow, callVars,
                   snapVars, mu, now, ingested, metVars, ctorVars, opc>>

(* ------------------------------------------------------------------ *)
(* GetSnapshot.  Each caller thread makes one call; its ctx and its     *)
(* resultChan are named after it.                                      *)
(* ------------------------------------------------------------------ *)

Result(kind, sn) == [kind |-> kind, snap |-> sn]

\* A guard that looks at the running flag alone.
NotRunningLax == ~running

\* GetSnapshot, line 337: !sb.running.Load() || sb.finalStopped.Load()
NotRunning == ~running \/ finalStopped

\* GetSnapshot, lines 337-339: the call begins, with a context that may already
\* be done; it fails unless running and not finalStopped.
SnapBegin(g) ==
    /\ gpc[g] = "idle"
    /\ \E pre \in BOOLEAN : ctxDone' = IF pre THEN ctxDone \cup {g} ELSE ctxDone
    /\ IF NotRunning
       THEN /\ gres' = [gres EXCEPT ![g] = Result("not running", EmptySnap)]
            /\ gpc' = [gpc EXCEPT ![g] = "done"]
       ELSE /\ gpc' = [gpc EXCEPT ![g] = "has_shutdown"]
            /\ UNCHANGED gres
    /\ UNCHANGED <<lifeVars, ringVars, memVars, chanVars, metricVars, workerVars,
                   callVars, reply, mu, now, ingested, metVars, ctorVars, opc>>

\* GetSnapshot, lines 341-347: hasShutdown := sb.shutdown != nil, under shutdownMu
SnapHasShutdown(g) ==
    /\ gpc[g] = "has_shutdown"
    /\ IF shutdown # 0
       THEN /\ gpc' = [gpc EXCEPT ![g] = "send"]
            /\ UNCHANGED gres
       ELSE /\ gpc' = [gpc EXCEPT ![g] = "done"]
            /\ gres' = [gres EXCEPT ![g] = Result("shutting down", EmptySnap)]
    /\ UNCHANGED <<lifeVars, ringVars, memVars, chanVars, metricVars, workerVars,
                   callVars, ctxDone, reply, mu, now, ingested, metVars, ctorVars, opc>>

\* The enqueue without the mailbox's depth: a send that never blocks.
SnapEnqueueUnbounded(g) ==
    /\ gpc[g] = "send"
    /\ snapReq' = Append(snapReq, g)
    /\ gpc' = [gpc EXCEPT ![g] = "wait"]
    /\ UNCHANGED <<lifeVars, ringVars, memVars, input, inputClosed, nsent,
                   metricVars, workerVars, callVars, gres, ctxDone, reply, mu, now,
                   ingested, metVars, ctorVars, opc>>

\* select: case sb.snapReq <- req
SnapEnqueue(g) ==
    /\ gpc[g] = "send"
    /\ Len(snapReq) < SnapReqDepth
    /\ snapReq' = Append(snapReq, g)
    /\ gpc' = [gpc EXCEPT ![g] = "wait"]
    /\ UNCHANGED <<lifeVars, ringVars, memVars, input, inputClosed, nsent,
                   metricVars, workerVars, callVars, gres, ctxDone, reply, mu, now,
                   ingested, metVars, ctorVars, opc>>

\* select: case <-ctx.Done(): return Snapshot{}, ctx.Err()  (before the enqueue)
SnapCancelSend(g) ==
    /\ gpc[g] = "send"
    /\ g \in ctxDone
    /\ gres' = [gres EXCEPT ![g] = Result("cancelled", EmptySnap)]
    /\ gpc' = [gpc EXCEPT ![g] = "done"]
    /\ UNCHANGED <<lifeVars, ringVars, memVars, chanVars, metricVars, workerVars,
                   callVars, ctxDone, reply, mu, now, ingested, metVars, ctorVars, opc>>

\* select: case snapshot := <-resultChan: return snapshot, nil
SnapReceive(g) ==
    /\ gpc[g] = "wait"
    /\ reply[g] # <<>>
    /\ gres' = [gres EXCEPT ![g] = Result("ok", reply[g][1])]
    /\ reply' = [reply EXCEPT ![g] = <<>>]
    /\ gpc' = [gpc EXCEPT ![g] = "done"]
    /\ UNCHANGED <<lifeVars, ringVars, memVars, chanVars, metricVars, workerVars,
                   callVars, ctxDone, mu, now, ingested, metVars, ctorVars, opc>>

\* select: case <-ctx.Done(): return Snapshot{}, ctx.Err()  (while waiting)
SnapCancelWait(g) ==
    /\ gpc[g] = "wait"
    /\ g \in ctxDone
    /\ gres' = [gres EXCEPT ![g] = Result("cancelled", EmptySnap)]
    /\ gpc' = [gpc EXCEPT ![g] = "done"]
    /\ UNCHANGED <<lifeVars, ringVars, memVars, chanVars, metricVars, workerVars,
                   callVars, ctxDone, reply, mu, now, ingested, metVars, ctorVars, opc>>

\* The caller's context is cancelled or times out while the call is in progress.
CtxTrip(g) ==
    /\ gpc[g] \in {"has_shutdown", "send", "wait"}
    /\ g \notin ctxDone
    /\ ctxDone' = ctxDone \cup {g}
    /\ UNCHANGED <<lifeVars, ringVars, memVars, chanVars, metricVars, workerVars,
                   callVars, gpc, gres, reply, mu, now, ingested, metVars, ctorVars, opc>>

\* The caller of a GetSnapshot call that has returned a snapshot calls again,
\* with a new context and a new resultChan (line 349); of what the earlier call
\* returned it keeps the snapshot's times and lets go of the frames.
SnapAgain(g) ==
    /\ gpc[g] = "done"
    /\ gres[g].kind = "ok"
    /\ gpc' = [gpc EXCEPT ![g] = "idle"]
    /\ ctxDone' = ctxDone \ {g}
    /\ reply' = [reply EXCEPT ![g] = <<>>]
    /\ gres' = [gres EXCEPT ![g].snap.Frames = <<>>]
    /\ UNCHANGED <<lifeVars, ringVars, pool, chanVars, metricVars, workerVars,
                   callVars, mu, now, ingested, metVars, ctorVars, opc>>
    /\ heap' = Gc(heap)

(* ------------------------------------------------------------------ *)
(* GetMetrics.  Each caller thread makes one call.                     *)
(* ------------------------------------------------------------------ *)

\* GetMetrics, lines 385-388: count and capacity are read under sb.mu.RLock()
MetricsCount(m) ==
    /\ mpc[m] = "idle"
    /\ CanRLock
    /\ mres' = [mres EXCEPT ![m].FrameCount = count, ![m].Capacity = Capacity]
    /\ mpc' = [mpc EXCEPT ![m] = "processed"]
    /\ UNCHANGED <<lifeVars, ringVars, memVars, chanVars, metricVars, workerVars,
                   callVars, snapVars, mu, now, ingested, ctorVars, opc>>

\* GetMetrics, lines 395-396: sb.framesProcessed.Load(), sb.framesDropped.Load()
MetricsProcessed(m) ==
    /\ mpc[m] = "processed"
    /\ mres' = [mres EXCEPT ![m].FramesProcessed = framesProcessed,
                            ![m].FramesDropped = framesDropped]
    /\ mpc' = [mpc EXCEPT ![m] = "trimmed"]
    /\ UNCHANGED <<lifeVars, ringVars, memVars, chanVars, metricVars, workerVars,
                   callVars, snapVars, mu, now, ingested, ctorVars, opc>>

\* GetMetrics, line 397: sb.framesTrimmed.Load()
MetricsTrimmed(m) ==
    /\ mpc[m] = "trimmed"
    /\ mres' = [mres EXCEPT ![m].FramesTrimmed = framesTrimmed]
    /\ mpc' = [mpc EXCEPT ![m] = "sent"]
    /\ UNCHANGED <<lifeVars, ringVars, memVars, chanVars, metricVars, workerVars,
                   callVars, snapVars, mu, now, ingested, ctorVars, opc>>

\* GetMetrics, line 398: sb.snapshotsSent.Load()
MetricsSent(m) ==
    /\ mpc[m] = "sent"
    /\ mres' = [mres EXCEPT ![m].SnapshotsSent = snapshotsSent]
    /\ mpc' = [mpc EXCEPT ![m] = "last"]
    /\ UNCHANGED <<lifeVars, ringVars, memVars, chanVars, metricVars, workerVars,
                   callVars, snapVars, mu, now, ingested, ctorVars, opc>>

\* What a torn read of a time.Time yields: a value that was never written.
TornTime == 0 - 1

\* The values an unsynchronised read of sb.lastFrameTime may give: the stored
\* one, or, while a processFrame call is at its write of line 254 under sb.mu,
\* the new one or a mixture of the two.
LastFrameTimeReads ==
    {lastFrameTime}
    \cup UNION {{wnow[w], TornTime} : w \in {v \in Workers : wpc[v] = "pf_stamp"}}

\* GetMetrics, line 404: sb.lastFrameTime is read without sb.mu
MetricsLast(m) ==
    /\ mpc[m] = "last"
    /\ \E t \in LastFrameTimeReads : mres' = [mres EXCEPT ![m].LastFrameTime = t]
    /\ mpc' = [mpc EXCEPT ![m] = "done"]
    /\ UNCHANGED <<lifeVars, ringVars, memVars, chanVars, metricVars, workerVars,
                   callVars, snapVars, mu, now, ingested, ctorVars, opc>>

(* ------------------------------------------------------------------ *)
(* The producer and the clock.                                         *)
(* ------------------------------------------------------------------ *)

\* IsRunning: sb.running.Load() && !sb.finalStopped.Load()
IsRunning == running /\ ~finalStopped

\* input <- data: a producer sends payload p, held in an array of its own
\* (producer arrays have negative ids), on Input().
Send(p) ==
    /\ ~inputClosed
    /\ Len(input) < InputDepth
    /\ LET id == 0 - (nsent + 1)
       IN /\ input' = Append(input, [buf |-> id, len |-> Len(p)])
          /\ nsent' = nsent + 1
          /\ UNCHANGED <<lifeVars, ringVars, pool, inputClosed, snapReq, metricVars,
                         workerVars, callVars, snapVars, mu, now, ingested, metVars, ctorVars, opc>>
          /\ heap' = Gc([i \in DOMAIN heap \cup {id} |->
                          IF i = id THEN [cap |-> Len(p), bytes |-> p] ELSE heap[i]])

\* close(input): a producer closes the channel Input() returned.
CloseInput ==
    /\ ~inputClosed
    /\ inputClosed' = TRUE
    /\ UNCHANGED <<lifeVars, ringVars, memVars, input, snapReq, nsent, metricVars,
                   workerVars, callVars, snapVars, mu, now, ingested, metVars, ctorVars, opc>>

\* Time passes.
Tick ==
    /\ now' = now + 1
    /\ UNCHANGED <<lifeVars, ringVars, memVars, chanVars, metricVars, workerVars,
                   callVars, snapVars, mu, ingested, metVars, ctorVars, opc>>

SelectInputClosedStep == \E w \in Workers : SelectInputClosed(w)

(* ------------------------------------------------------------------ *)
(* The constructor, one option at a time.                              *)
(* ------------------------------------------------------------------ *)

\* One round of the loop over opts.
CtorApply ==
    /\ ~sb.built
    /\ sb.applied < Len(opts)
    /\ sb' = [ApplyOption(sb, opts[sb.applied + 1]) EXCEPT !.applied = sb.applied + 1]
    /\ UNCHANGED <<lifeVars, ringVars, memVars, chanVars, metricVars, workerVars,
                   callVars, snapVars, mu, now, ingested, metVars, opts, opc>>

\* The statements after the loop.
CtorFinish ==
    /\ ~sb.built
    /\ sb.applied = Len(opts)
    /\ sb' = Finish(sb)
    /\ UNCHANGED <<lifeVars, ringVars, memVars, chanVars, metricVars, workerVars,
                   callVars, snapVars, mu, now, ingested, metVars, opts, opc>>

(* ------------------------------------------------------------------ *)
(* Specifications.                                                     *)
(* ------------------------------------------------------------------ *)

StartStep(S) == \E s \in S :
    StartCheck(s) \/ StartCAS(s) \/ StartMake(s) \/ StartGo(s)

StopStep(T) == \E t \in T :
    StopCAS(t) \/ StopFinal(t) \/ StopClose(t) \/ StopLock(t) \/ StopDrain(t)

\* The part of processLoop that ingests.
RunStep == \E w \in Workers :
    \/ LoopTop(w) \/ SelectInput(w)
    \/ ProcessFrameLock(w) \/ ProcessFrameStore(w) \/ ProcessFrameStamp(w)
    \/ ProcessFrameTrim(w)

\* The part of processLoop that shuts down.
QuitStep == \E w \in Workers : SelectShutdown(w) \/ LoopExit(w)

IngestStep == RunStep \/ QuitStep

\* The part of processLoop that serves snapshot requests.
ServeStep == \E w \in Workers :
    SelectSnapReq(w) \/ CreateSnapshot(w) \/ Deliver(w) \/ CountSent(w)
    \/ Reclaim(w)

SnapStep == \E g \in SnapThreads :
    \/ SnapBegin(g) \/ SnapHasShutdown(g) \/ SnapEnqueue(g) \/ SnapCancelSend(g)
    \/ SnapReceive(g) \/ SnapCancelWait(g) \/ CtxTrip(g)

\* GetMetrics, one call per caller thread.
MetricsStep == \E m \in MetricsThreads :
    \/ MetricsCount(m) \/ MetricsProcessed(m) \/ MetricsTrimmed(m)
    \/ MetricsSent(m) \/ MetricsLast(m)

\* A producer that may send any payload, up to MaxFrames of them.
SendStep == nsent < MaxFrames /\ \E p \in Payloads : Send(p)

\* The k-th payload of a producer that sends one payload of each size in turn.
PayloadOf(k) ==
    IF k % 3 = 1 THEN <<1>>
    ELSE IF k % 3 = 2 THEN <<2, 2>>
    ELSE <<3, 3, 3, 3, 3, 3, 3, 3, 3>>

ScriptedSend == nsent < MaxFrames /\ Send(PayloadOf(nsent + 1))

\* The clock runs up to MaxTime.
TickStep == now < MaxTime /\ Tick

\* Every thread, any payload, a producer that may close the channel.
Next ==
    \/ StartStep(StartThreads) \/ StopStep(StopThreads) \/ IngestStep \/ ServeStep
    \/ SnapStep \/ SendStep \/ CloseInput \/ SelectInputClosedStep \/ TickStep
    \/ MetricsStep

Spec == Init /\ [][Next]_vars

\* The engine at work: a Start, a Stop that races with the worker, a snapshot
\* caller and a producer, and either time passing (frames age out) or a second
\* Start racing with the Stop (a second worker).
NextCore ==
    \/ StartStep({"s1"}) \/ StopStep({"t1"}) \/ IngestStep \/ ServeStep
    \/ SnapStep \/ ScriptedSend
    \/ (spc["s2"] = "idle" /\ TickStep)
    \/ (now = 1 /\ StartStep({"s2"}))

SpecCore == Init /\ [][NextCore]_vars

\* The engine with one worker while time passes: a Start, a Stop that races
\* with the worker, a snapshot caller, a producer and the clock.
NextClock ==
    \/ StartStep({"s1"}) \/ StopStep({"t1"}) \/ IngestStep \/ ServeStep
    \/ SnapStep \/ ScriptedSend \/ TickStep

SpecClock == Init /\ [][NextClock]_vars

\* The engine with callers whose context is either done from the start or
\* never: a Start, a Stop, a producer, the worker and the snapshot callers.
NextPreTrip ==
    \/ StartStep({"s1"}) \/ StopStep({"t1"}) \/ IngestStep \/ ScriptedSend
    \/ \E w \in Workers :
          SelectSnapReq(w) \/ CreateSnapshot(w) \/ Deliver(w) \/ CountSent(w)
    \/ \E g \in SnapThreads :
          \/ SnapBegin(g) \/ SnapHasShutdown(g) \/ SnapEnqueue(g)
          \/ SnapCancelSend(g) \/ SnapReceive(g) \/ SnapCancelWait(g)

SpecPreTrip == Init /\ [][NextPreTrip]_vars

\* A caller that calls again after each snapshot it gets, until MaxSnapshots
\* snapshots have been delivered.
AgainStep == snapshotsSent < MaxSnapshots /\ \E g \in SnapThreads : SnapAgain(g)

\* The engine with a caller that asks for snapshots one after the other, with
\* contexts that are done from the start or never, while a producer sends
\* MaxFrames - 1 frames, time passes and Stop is called.
NextRepeat ==
    \/ StartStep({"s1"}) \/ StopStep({"t1"}) \/ IngestStep
    \/ nsent < MaxFrames - 1 /\ ScriptedSend
    \/ \E w \in Workers :
          SelectSnapReq(w) \/ CreateSnapshot(w) \/ Deliver(w) \/ CountSent(w)
    \/ \E g \in SnapThreads :
          \/ SnapBegin(g) \/ SnapHasShutdown(g) \/ SnapEnqueue(g)
          \/ SnapCancelSend(g) \/ SnapReceive(g) \/ SnapCancelWait(g)
    \/ AgainStep \/ TickStep

SpecRepeat == Init /\ [][NextRepeat]_vars

\* Start and Stop called from two threads each, with a producer.
NextLife ==
    \/ StartStep(StartThreads) \/ StopStep(StopThreads) \/ IngestStep \/ ScriptedSend

SpecLife == Init /\ [][NextLife]_vars

\* A running engine that is left idle: one Start, no Stop, a producer, a
\* snapshot caller, and a clock that runs one tick past MaxTime.
NextIdle ==
    \/ StartStep({"s1"}) \/ RunStep \/ ServeStep \/ SnapStep \/ ScriptedSend
    \/ (now < MaxTime + 1 /\ Tick)

SpecIdle == Init /\ [][NextIdle]_vars

\* The steps of the processLoop goroutines that do not shut down.
WorkerStep == RunStep \/ ServeStep

\* Metrics sampled while the engine ingests and time passes: one Start, a
\* producer, the clock and a GetMetrics caller.
NextMetrics ==
    \/ StartStep({"s1"}) \/ RunStep \/ ScriptedSend \/ TickStep \/ MetricsStep

SpecMetrics == Init /\ [][NextMetrics]_vars

\* An engine that keeps running: one Start, no Stop, a producer and a
\* snapshot caller, at one instant of the clock.
NextRun ==
    \/ StartStep({"s1"}) \/ RunStep \/ ServeStep \/ SnapStep \/ ScriptedSend

\* The running engine when the Start call is made and runs to its end and the
\* scheduler keeps running the worker goroutine.
SpecRunFair ==
    /\ Init /\ [][NextRun]_vars
    /\ WF_vars(StartStep({"s1"}))
    /\ WF_vars(WorkerStep)

\* A producer that sends only once a Stop call that shut the engine down has
\* returned: a Start, a Stop, the worker, the clock and the late producer.
NextLate ==
    \/ StartStep({"s1"}) \/ StopStep({"t1"}) \/ IngestStep \/ TickStep
    \/ (\E t \in StopThreads : tpc[t] = "done") /\ ScriptedSend

SpecLate == Init /\ [][NextLate]_vars

\* A constructor call with any list of up to MaxOpts options.
InitOptions ==
    /\ InitEngine
    /\ opts \in OptionLists
    /\ sb = Allocated

NextOptions == CtorApply \/ CtorFinish

SpecOptions == InitOptions /\ [][NextOptions]_vars

\* Ingestion alone, with one payload more than MaxFrames so that the ring
\* both overflows and ages: one Start, the worker, a producer and the clock.
NextIngest ==
    \/ StartStep({"s1"}) \/ RunStep \/ TickStep
    \/ nsent < MaxFrames + 1 /\ Send(PayloadOf(nsent + 1))

SpecIngest == Init /\ [][NextIngest]_vars

\* The other callers of GetSnapshot, one call at a time, each with a context
\* that is already done when it calls: the model keeps the position of the
\* call in progress and the requests left in the mailbox.
OtherCaller == "gx"

\* GetSnapshot of another caller, lines 337-339: the call begins on an engine
\* that is running and not finalStopped (otherwise it returns at once).
OthersBegin ==
    /\ opc = "idle"
    /\ ~NotRunning
    /\ opc' = "has_shutdown"
    /\ ctxDone' = ctxDone \cup {OtherCaller}
    /\ UNCHANGED <<lifeVars, ringVars, memVars, chanVars, metricVars, workerVars,
                   callVars, gpc, gres, reply, mu, now, ingested, metVars, ctorVars>>

\* lines 341-347: hasShutdown := sb.shutdown != nil, under shutdownMu
OthersHasShutdown ==
    /\ opc = "has_shutdown"
    /\ opc' = IF shutdown # 0 THEN "send" ELSE "idle"
    /\ UNCHANGED <<lifeVars, ringVars, memVars, chanVars, metricVars, workerVars,
                   callVars, snapVars, mu, now, ingested, metVars, ctorVars>>

\* lines 355-356: case sb.snapReq <- req; the second select then takes
\* ctx.Done() and the call returns.
OthersEnqueue ==
    /\ opc = "send"
    /\ Len(snapReq) < SnapReqDepth
    /\ snapReq' = Append(snapReq, OtherCaller)
    /\ opc' = "idle"
    /\ UNCHANGED <<lifeVars, ringVars, memVars, input, inputClosed, nsent,
                   metricVars, workerVars, callVars, snapVars, mu, now,
                   ingested, metVars, ctorVars>>

\* lines 357-358: case <-ctx.Done(), before the enqueue
OthersCancelSend ==
    /\ opc = "send"
    /\ opc' = "idle"
    /\ UNCHANGED <<lifeVars, ringVars, memVars, chanVars, metricVars, workerVars,
                   callVars, snapVars, mu, now, ingested, metVars, ctorVars>>

\* GetSnapshot as the other callers run it.
OthersStep ==
    OthersBegin \/ OthersHasShutdown \/ OthersEnqueue \/ OthersCancelSend

\* A busy request mailbox: one Start, the worker serving requests, the caller
\* g1 and other callers whose abandoned requests fill the mailbox.
NextFull ==
    \/ StartStep({"s1"}) \/ (\E w \in Workers : LoopTop(w)) \/ ServeStep
    \/ SnapStep \/ OthersStep

SpecFull == Init /\ [][NextFull]_vars

\* The steps of GetSnapshot's callers, their tokens left alone.
CallerStep == \E g \in SnapThreads :
    \/ SnapBegin(g) \/ SnapHasShutdown(g) \/ SnapEnqueue(g)
    \/ SnapCancelSend(g) \/ SnapReceive(g) \/ SnapCancelWait(g)

\* The engine of SpecPreTrip when every call that is made runs on: Start and
\* Stop are called and run to their end, the worker goroutine and the callers
\* of GetSnapshot are scheduled whenever they can take a step.
SpecPreTripFair ==
    /\ Init /\ [][NextPreTrip]_vars
    /\ WF_vars(StartStep({"s1"}))
    /\ WF_vars(StopStep({"t1"}))
    /\ WF_vars(\E w \in Workers :
                  \/ LoopTop(w) \/ SelectShutdown(w) \/ SelectInput(w) \/ LoopExit(w)
                  \/ ProcessFrameLock(w) \/ ProcessFrameStore(w) \/ ProcessFrameStamp(w)
                  \/ ProcessFrameTrim(w)
                  \/ SelectSnapReq(w) \/ CreateSnapshot(w) \/ Deliver(w) \/ CountSent(w))
    /\ WF_vars(CallerStep)

\* A running engine kept busy: one Start, no Stop, a producer, the caller g1
\* and other callers whose abandoned requests keep arriving in the mailbox.
NextBusy == NextRun \/ OthersStep

\* The busy engine as the Go runtime schedules it: the Start call runs to its
\* end, the worker goroutine and the caller run whenever they can take a step,
\* and a sender blocked on the full request channel is served in its turn
\* when the worker receives (blocked senders queue first in, first out).
SpecBusyFair ==
    /\ Init /\ [][NextBusy]_vars
    /\ WF_vars(StartStep({"s1"}))
    /\ WF_vars(WorkerStep)
    /\ WF_vars(CallerStep)
    /\ SF_vars(\E g \in SnapThreads : SnapEnqueue(g))

\* A producer that closes the ingress channel: one Start, one Stop, the
\* worker's ingestion and exit, the producer's sends and its close.
NextClosed ==
    \/ StartStep({"s1"}) \/ StopStep({"t1"}) \/ IngestStep \/ ScriptedSend
    \/ CloseInput \/ SelectInputClosedStep

SpecClosed == Init /\ [][NextClosed]_vars

\* GetSnapshot against the lifecycle: Start called from two threads, a Stop,
\* the workers serving requests and shutting down, and a snapshot caller.
NextRefuse ==
    \/ StartStep(StartThreads) \/ StopStep({"t1"})
    \/ (\E w \in Workers : LoopTop(w)) \/ QuitStep \/ ServeStep \/ SnapStep

SpecRefuse == Init /\ [][NextRefuse]_vars

\* The engine at one instant of the clock: a Start, a Stop that races with
\* the worker, a producer and a snapshot caller whose context may be cancelled.
NextStill ==
    \/ StartStep({"s1"}) \/ StopStep({"t1"}) \/ IngestStep \/ ServeStep
    \/ SnapStep \/ ScriptedSend

SpecStill == Init /\ [][NextStill]_vars

\* The four ways a payload goes back to the pool: a Start, a Stop whose drain
\* races with the worker, a producer, a snapshot caller whose context may be
\* cancelled, and a clock that runs while the producer's last payloads wait
\* in the ingress channel, so that the ring is overwritten and then ages.
NextRelease ==
    \/ StartStep({"s1"}) \/ StopStep({"t1"}) \/ IngestStep \/ ServeStep
    \/ SnapStep \/ ScriptedSend
    \/ (nsent = MaxFrames /\ input # <<>> /\ TickStep)

SpecRelease == Init /\ [][NextRelease]_vars

----------------------------------------------------------------------------
\* Views of the state that the properties below speak about.

\* The occupied slots of the ring, oldest first.
RingSlots == [i \in 1..count |-> frames[RingIdx(head, count, i - 1)]]

\* The snapshots of successful GetSnapshot calls.
Returned == {gres[g].snap : g \in {c \in SnapThreads : gres[c].kind = "ok"}}

\* Every snapshot that exists: built and not yet handed over, in a reply
\* channel, or returned to a caller.
AllSnapshots ==
    {wsnap[w] : w \in Workers}
    \cup {reply[g][1] : g \in {c \in SnapThreads : Len(reply[c]) > 0}}
    \cup {gres[g].snap : g \in SnapThreads}

Contiguous(fs) == \A i \in 1..(Len(fs) - 1) : fs[i + 1].Sequence = fs[i].Sequence + 1

\* No worker is between storing a frame and the end of processFrame.
IngestComplete == \A w \in Workers : wpc[w] \notin {"pf_stamp", "pf_trim"}

----------------------------------------------------------------------------
\* C1: the sequence numbers of the frames retained in the ring, read oldest
\* to newest, and of the frames of every snapshot, read in order, go up by
\* exactly one from each frame to the next.
C1_SequencesContiguous ==
    /\ Contiguous(RingSlots)
    /\ \A sn \in AllSnapshots : Contiguous(sn.Frames)

\* A caller holds a full snapshot of a ring that has wrapped around.
C1_Witness ==
    /\ count = Capacity
    /\ nextSeq > Capacity
    /\ \E sn \in Returned : Len(sn.Frames) = Capacity /\ sn.Frames[1].Sequence > 0

\* The payload the producer sent for the frame with sequence number q.
SentFor(q) == ingested[q + 1].bytes

\* The frames of snapshot sn are the last min(n, Capacity) of the n = last + 1
\* frames ingested so far, each with the payload that was sent for it.
HoldsLastFrames(sn) ==
    LET fs == sn.Frames
        m == Len(fs)
        n == fs[m].Sequence + 1
    IN m > 0 =>
         /\ m = Min(n, Capacity)
         /\ \A k \in 1..m :
              /\ fs[k].Sequence = n - m + k - 1
              /\ fs[k].Sequence < Len(ingested)
              /\ Bytes(heap, fs[k].Data) = SentFor(fs[k].Sequence)

\* C2: as long as no frame has aged out, the ring holds min(n, Capacity)
\* frames after n ingestions, and every snapshot handed to a caller holds the
\* last min(n, Capacity) payloads in ingestion order under the sequence
\* numbers n - min(n, Capacity) .. n - 1.
C2_LastFramesRetained ==
    framesTrimmed = 0 =>
        /\ IngestComplete => count = Min(nextSeq, Capacity)
        /\ \A sn \in Returned : HoldsLastFrames(sn)

\* C3: when an ingestion has completed, every retained frame is at most one
\* window older than that ingestion's time, and every frame ingested earlier
\* than that has left the ring.
C3_RetainedWithinWindow ==
    IngestComplete =>
        /\ \A i \in 1..count : RingSlots[i].Timestamp >= lastFrameTime - Window
        /\ \A q \in 0..(Len(ingested) - 1) :
              ingested[q + 1].ts < lastFrameTime - Window
                  => \A i \in 1..count : RingSlots[i].Sequence # q

\* An ingestion has trimmed an aged frame and left a retained one.
C3_Witness ==
    /\ IngestComplete
    /\ framesTrimmed > 0
    /\ count >= 1
    /\ \E q \in 0..(Len(ingested) - 1) : ingested[q + 1].ts < lastFrameTime - Window

\* C4: no frame of a snapshot handed to a caller is older, at the snapshot's
\* creation time, than the window plus one clock tick.
C4_SnapshotWithinWindow ==
    \A sn \in Returned : \A k \in 1..Len(sn.Frames) :
        sn.Timestamp - sn.Frames[k].Timestamp <= Window + 1

\* The arrays the ring slots refer to.
RingBufs == {frames[i].Data.buf : i \in 0..(Capacity - 1)} \ {0}

\* C5: every frame of a snapshot handed to a caller carries the bytes the
\* producer sent for its sequence number, in an array that is neither a ring
\* slot's nor a producer's.
C5_SnapshotDeepCopy ==
    \A sn \in Returned : \A k \in 1..Len(sn.Frames) :
        LET f == sn.Frames[k]
        IN /\ f.Sequence < Len(ingested)
           /\ Bytes(heap, f.Data) = SentFor(f.Sequence)
           /\ f.Data.buf \notin RingBufs \cup ProducerBufs

\* The frames of snapshot sn, as positions, whose payload is array b.
FrameRefs(sn, b) == {k \in 1..Len(sn.Frames) : sn.Frames[k].Data.buf = b}

\* The number of owners of array b: its copies in the pool, the ring slots and
\* the frames of snapshots that refer to it.
Owners(b) ==
    CopiesIn(b, pool)
    + Cardinality({i \in 0..(Capacity - 1) : frames[i].Data.buf = b})
    + Cardinality({x \in Workers \X (1..Capacity) : x[2] \in FrameRefs(wsnap[x[1]], b)})
    + Cardinality({x \in SnapThreads \X (1..Capacity) :
                     Len(reply[x[1]]) > 0 /\ x[2] \in FrameRefs(reply[x[1]][1], b)})
    + Cardinality({x \in SnapThreads \X (1..Capacity) : x[2] \in FrameRefs(gres[x[1]].snap, b)})

\* C6: every payload array has at most one owner among the pool, the ring
\* slots and the frames of snapshots.
C6_SingleOwner == \A b \in DOMAIN heap \ ProducerBufs : Owners(b) <= 1

\* Every way of release has acted: a frame was stored over a full ring
\* (more frames were stored than the ring holds or the trim evicted), the trim
\* has evicted a frame, a Stop call has returned and the slots are drained,
\* and the pool holds more arrays than frames were ever stored, which only the
\* reclaim of an abandoned snapshot can give.
C6_Witness ==
    /\ framesTrimmed >= 1
    /\ nextSeq > count + framesTrimmed
    /\ \E t \in StopThreads : tpc[t] = "done"
    /\ \A i \in 0..(Capacity - 1) : frames[i].Data.buf = 0
    /\ BagCardinality(pool) > nextSeq

\* Snapshot sn, built in the next state, has the frames of the ring as they
\* are now: as many, in the same order, with the same sequence numbers,
\* timestamps and bytes.
CopyOfRing(sn) ==
    /\ Len(sn.Frames) = count
    /\ \A k \in 1..count :
         /\ sn.Frames[k].Sequence = RingSlots[k].Sequence
         /\ sn.Frames[k].Timestamp = RingSlots[k].Timestamp
         /\ Bytes(heap', sn.Frames[k].Data) = Bytes(heap, RingSlots[k].Data)

\* C7: a snapshot is built from the ring as it stands when nobody is writing
\* it and holds exactly its retained frames, and no frame is ingested between
\* the moment a worker takes a request off the queue and the moment it builds
\* the snapshot for it.
C7_ConsistentPoint ==
    [][ /\ (\E w \in Workers : wpc[w] = "snap") => ingested' = ingested
        /\ \A w \in Workers :
              (wpc[w] = "snap" /\ wpc'[w] = "deliver")
                  => (mu = NoThread /\ CopyOfRing(wsnap'[w])) ]_vars

\* C8: once finalStopped is set, no Start call spawns a worker.
C8_NoSpawnAfterFinalStop ==
    [][ finalStopped =>
          \A s \in StartThreads : wpc[s] = "none" => wpc'[s] = "none" ]_vars

\* A Stop call that shut the engine down has returned.
StopReturned == \E t \in StopThreads : tpc[t] = "done"

\* C9: once a Stop call that shut the engine down has returned, IsRunning()
\* is false in every state, and a Stop call made afterwards takes the path
\* that changes nothing.
C9_StopIsFinal ==
    [][ /\ StopReturned' => ~IsRunning'
        /\ \A t \in StopThreads :
              (StopReturned /\ tpc[t] = "idle") => tpc'[t] \in {"idle", "noop"} ]_vars

\* The worker loops that have been spawned and have not returned.
Alive == {w \in Workers : wpc[w] \notin {"none", "dead"}}

\* C10: at most one worker loop is alive.
C10_SingleWorker == Cardinality(Alive) <= 1

\* C11: when a Stop call that shut the engine down has returned, no worker
\* loop is alive, and from then on no frame is ingested and no snapshot is
\* built.
C11_StopWaitsForWorker ==
    [][ /\ StopReturned' => Alive' = {}
        /\ StopReturned =>
              /\ ingested' = ingested
              /\ \A w \in Workers : ~(wpc[w] = "snap" /\ wpc'[w] = "deliver") ]_vars

\* C12: once a Stop call that shut the engine down has returned, no ring slot
\* holds a payload.
C12_RingEmptyAfterStop == StopReturned => RingBufs = {}

\* C13: a GetSnapshot call that finds the engine not started or final-stopped
\* returns "not running" at once: it enqueues no request, no snapshot is built
\* or deposited, no buffer leaves the pool and snapshotsSent stays as it is.
C13_NotRunningRejected ==
    [][ \A g \in SnapThreads :
          (gpc[g] = "idle" /\ gpc'[g] # "idle" /\ (~running \/ finalStopped))
              => /\ gpc'[g] = "done"
                 /\ gres'[g].kind = "not running"
                 /\ gres'[g].snap = EmptySnap
                 /\ UNCHANGED <<snapReq, reply, wsnap, wreq, pool, heap, snapshotsSent>> ]_vars

\* A call made on a final-stopped engine whose running flag a racing Start
\* has set again was turned down.
C13_Witness ==
    /\ finalStopped
    /\ running
    /\ \E g \in SnapThreads : gres[g].kind = "not running"

\* C14: a GetSnapshot call that has returned gave a snapshot, "not running"
\* or "cancelled", and "cancelled" only if the caller's context is done.
C14_ThreeOutcomes ==
    \A g \in SnapThreads :
        /\ gpc[g] = "done" => gres[g].kind \in {"ok", "not running", "cancelled"}
        /\ gres[g].kind = "cancelled" => g \in ctxDone

\* C15: a call whose context was done from the start and that found the
\* engine running returns "cancelled"; the worker builds no snapshot for it,
\* nothing is deposited for it, and it adds nothing to snapshotsSent.
C15_PreTrippedCancelled ==
    \A g \in ctxDone :
        /\ (gpc[g] = "done" /\ gres[g].kind # "not running") => gres[g].kind = "cancelled"
        /\ \A w \in Workers : wreq[w] = g => wpc[w] \notin {"snap", "deliver"}
        /\ reply[g] = <<>>
        /\ SnapThreads \subseteq ctxDone => snapshotsSent = 0

\* Every GetSnapshot call has returned and no worker holds a request or has
\* a delivery left to count.
SnapQuiescent ==
    /\ \A g \in SnapThreads : gpc[g] = "done"
    /\ snapReq = <<>>
    /\ \A w \in Workers : wreq[w] = NoThread /\ wpc[w] # "sent"

\* C16: when all calls have returned and no request is pending, snapshotsSent
\* is the number of calls that returned a snapshot: a call that returned
\* "cancelled" has not been counted.
C16_SentCountsDeliveries ==
    SnapQuiescent =>
        snapshotsSent = Cardinality({g \in SnapThreads : gres[g].kind = "ok"})

\* C17: once a call has returned "cancelled" and no worker holds its request
\* any more, no payload built for it lies in its result channel.
C17_NoStrandedSnapshot ==
    \A g \in SnapThreads :
        (gpc[g] = "done" /\ gres[g].kind = "cancelled" /\ reply[g] # <<>>)
            => Len(reply[g][1].Frames) = 0

\* C18: on an engine that keeps running, the payloads ingested are the
\* payloads accepted by the ingress channel, in order and each once, every
\* ingestion is counted once, and in the end framesProcessed equals the
\* number of payloads accepted and stays so.
C18_AcceptedIsIngested ==
    /\ [](/\ IngestComplete => framesProcessed = Len(ingested)
          /\ Len(ingested) <= nsent
          /\ \A k \in 1..Len(ingested) : ingested[k].bytes = PayloadOf(k))
    /\ <>[](framesProcessed = nsent)

\* All payloads were sent and ingested while a snapshot was requested and
\* returned.
C18_Witness ==
    /\ nsent = MaxFrames
    /\ framesProcessed = MaxFrames
    /\ \E sn \in Returned : Len(sn.Frames) > 0

\* C19: a Metrics value returned by GetMetrics has FramesProcessed at least
\* FramesTrimmed plus FrameCount.
C19_MetricsInequality ==
    \A m \in MetricsThreads :
        mpc[m] = "done" =>
            mres[m].FramesProcessed >= mres[m].FramesTrimmed + mres[m].FrameCount

\* C20: when a call returns a snapshot to a caller whose previous call also
\* returned one, the new snapshot's EndTime is not before the previous one's.
C20_EndTimeMonotone ==
    [][ \A g \in SnapThreads :
          (gpc[g] = "wait" /\ gpc'[g] = "done"
             /\ gres[g].kind = "ok" /\ gres'[g].kind = "ok")
              => gres'[g].snap.EndTime >= gres[g].snap.EndTime ]_vars

\* The caller's second call has returned a snapshot that holds frames, after
\* a frame aged out and Stop drained the ring.
C20_Witness ==
    /\ snapshotsSent = 2
    /\ framesTrimmed > 0
    /\ StopReturned
    /\ \E g \in SnapThreads :
          gpc[g] = "done" /\ gres[g].kind = "ok" /\ Len(gres[g].snap.Frames) > 0

\* C21: when every payload is sent after Stop() has returned, nothing is ever
\* ingested: once Stop() has returned the ring, the next sequence number and
\* framesProcessed stay as they are.
C21_LateSendDiscarded ==
    [][ StopReturned =>
          /\ frames' = frames /\ head' = head /\ count' = count
          /\ nextSeq' = nextSeq
          /\ framesProcessed' = framesProcessed ]_vars

\* The positive arguments given for one kind of option.
PositiveArgs(k) ==
    {opts[i].val : i \in {j \in 1..Len(opts) : opts[j].kind = k /\ opts[j].val > 0}}

\* The value v of a field after construction with options of kind k: the
\* default d when no positive argument was given, else a positive argument
\* that was given.
FieldOK(v, k, d) ==
    IF PositiveArgs(k) = {} THEN v = d ELSE v \in PositiveArgs(k)

\* C22: after construction each of window, capacity, frame size, maximum
\* recycle size and ingress depth has its default (30 s, 300, 1 MiB, 8 MiB,
\* 100) when its option was absent or given a zero or negative argument, and
\* the positive argument otherwise; the ring and the pool are sized from them;
\* no worker has been started and the engine is not running.
C22_OptionsAndDefaults ==
    sb.built =>
        /\ FieldOK(sb.window, "WithWindow", 30)
        /\ FieldOK(sb.capacity, "WithCapacity", 300)
        /\ FieldOK(sb.frameSize, "WithFrameSize", 1048576)
        /\ FieldOK(sb.maxRecycleSize, "WithMaxRecycleSize", 8388608)
        /\ FieldOK(sb.input, "WithInputBuffer", 100)
        /\ sb.framesLen = sb.capacity
        /\ sb.poolSizeHint = sb.frameSize
        /\ sb.poolMaxSize = sb.maxRecycleSize
        /\ ~IsRunning
        /\ Alive = {}

\* A constructor call has returned that was given a positive argument for one
\* option and a zero or negative one for another.
C22_Witness ==
    /\ sb.built
    /\ \E i, j \in 1..Len(opts) :
          /\ opts[i].kind # opts[j].kind
          /\ opts[i].val > 0
          /\ opts[j].val <= 0

\* The arrays in the pool that held data when they were released.
UsedPooled == {b \in BagToSet(pool) : \E i \in 1..heap[b].cap : heap[b].bytes[i] # 0}

\* C23: in every state, whatever bufferPool.get hands out is a non-nil buffer
\* of length 0 that shows no bytes, also when it is a recycled array that
\* still contains earlier data; with an empty pool its capacity is the size
\* hint.
C23_GetReturnsEmptyBuffer ==
    \A g \in PoolGet(pool, heap) :
        /\ g.s.buf # 0
        /\ g.s.len = 0
        /\ Bytes(g.heap, g.s) = <<>>
        /\ pool = EmptyBag => CapOf(g.heap, g.s) = FrameSize

\* The pool holds an array that held data and has grown beyond the size hint,
\* and get can hand it out.
C23_Witness ==
    \E b \in UsedPooled :
        /\ heap[b].cap > FrameSize
        /\ \E g \in PoolGet(pool, heap) : g.s.buf = b

\* C24: in every state the pool holds no nil buffer and no array whose
\* capacity exceeds the maximum recycle size, and releasing nil leaves the
\* pool as it is.
C24_PoolRespectsMaxSize ==
    /\ \A b \in BagToSet(pool) : b # 0 /\ heap[b].cap <= MaxRecycleSize
    /\ PoolPut(pool, heap, NilSlice) = pool

\* The pool holds an array whose capacity is exactly the maximum recycle size
\* after the ring released a larger one, which the pool did not keep.
C24_Witness ==
    /\ \E b \in BagToSet(pool) : heap[b].cap = MaxRecycleSize
    /\ \E k \in 1..Len(ingested) :
          /\ Len(ingested[k].bytes) > MaxRecycleSize
          /\ \A i \in 0..(Capacity - 1) :
                frames[i].Data.buf = 0 \/ frames[i].Sequence # k - 1
    /\ IngestComplete
    /\ StopReturned

\* The times between one ingestion and the next, for the ingestions so far.
Gaps == {ingested[k + 1].ts - ingested[k].ts : k \in 1..(Len(ingested) - 1)}

\* min(capacity, floor(window / dt) + 1) for the least gap dt; a single
\* ingestion has no gap and at most one frame, a gap of zero bounds nothing
\* but the capacity.
FrameBound ==
    IF Gaps = {} THEN Min(Capacity, 1)
    ELSE LET dt == CHOOSE d \in Gaps : \A e \in Gaps : d <= e
         IN IF dt = 0 THEN Capacity ELSE Min(Capacity, (Window \div dt) + 1)

\* C25: a snapshot built by createSnapshot holds at most
\* min(capacity, floor(window / dt) + 1) frames, dt being the least time
\* between two successive ingestions so far.
C25_SnapshotSizeBound ==
    [][ \A w \in Workers :
          (wpc[w] = "snap" /\ wpc'[w] = "deliver")
              => Len(wsnap'[w].Frames) <= FrameBound ]_vars

\* A snapshot of one frame was built after ingestions more than a window
\* apart, where the bound is below the capacity and a frame had aged out.
C25_Witness ==
    /\ Gaps # {}
    /\ FrameBound < Capacity
    /\ framesTrimmed > 0
    /\ \E w \in Workers : wpc[w] = "deliver" /\ Len(wsnap[w].Frames) = FrameBound

\* A snapshot's StartTime and EndTime: zero when it has no frames, else the
\* timestamps of its first and last frame.
TimesMatchFrames(sn) ==
    IF sn.Frames = <<>> THEN sn.StartTime = 0 /\ sn.EndTime = 0
    ELSE /\ sn.StartTime = sn.Frames[1].Timestamp
         /\ sn.EndTime = sn.Frames[Len(sn.Frames)].Timestamp

\* C26: on an engine that keeps running, createSnapshot copies exactly the
\* count frames of the ring, none when the ring is empty, with StartTime and
\* EndTime zero for no frames and else the first and the last frame's
\* timestamp; a call that was accepted and whose context is not done returns
\* without error, and what a successful call returns has these times.
C26_EmptyAndBoundaryTimes ==
    [][ /\ \A w \in Workers :
              (wpc[w] = "snap" /\ wpc'[w] = "deliver")
                  => /\ Len(wsnap'[w].Frames) = count
                     /\ TimesMatchFrames(wsnap'[w])
                     /\ \A k \in 1..Len(wsnap'[w].Frames) :
                           wsnap'[w].Frames[k].Timestamp =
                               ingested[wsnap'[w].Frames[k].Sequence + 1].ts
        /\ \A g \in SnapThreads :
              (gpc[g] # "done" /\ gpc'[g] = "done")
                  => /\ (gpc[g] # "idle" /\ g \notin ctxDone) => gres'[g].kind = "ok"
                     /\ gres'[g].kind = "ok" => TimesMatchFrames(gres'[g].snap) ]_vars

\* A call on the running engine returned a snapshot of the empty ring.
C26_Witness ==
    /\ IsRunning
    /\ count = 0
    /\ \E g \in SnapThreads :
          /\ gpc[g] = "done" /\ g \notin ctxDone
          /\ gres[g].kind = "ok"
          /\ gres[g].snap.Frames = <<>>
          /\ gres[g].snap.Timestamp > 0

\* C27: count is between 0 and the capacity and head is a slot index.
C27_CountAndHeadInRange ==
    /\ 0 <= count /\ count <= Capacity
    /\ 0 <= head /\ head < Capacity

\* The ring is full after head has wrapped around and a frame was overwritten.
C27_Witness ==
    /\ count = Capacity
    /\ nextSeq > Capacity
    /\ head = nextSeq % Capacity
    /\ IngestComplete

\* The count slots immediately preceding head in ring order.
Preceding == {RingIdx(head, count, i) : i \in 0..(count - 1)}

\* C28: whenever sb.mu is free, also after Stop(), the slots that hold a
\* payload are exactly the count slots immediately preceding head, so count
\* is the number of slots that hold a payload.
C28_CountMatchesPayloadSlots ==
    mu = NoThread =>
        /\ \A i \in 0..(Capacity - 1) : frames[i].Data.buf # 0 <=> i \in Preceding
        /\ Cardinality({i \in 0..(Capacity - 1) : frames[i].Data.buf # 0}) = count

\* C29: the trim of an ingestion at time now evicts a prefix of the retained
\* frames, oldest first: every evicted frame has a timestamp strictly before
\* now - window, the first frame kept is not before it, a frame stamped
\* exactly now - window is kept, the frames kept are untouched and the
\* evicted slots hold no payload.
C29_TrimIsStrict ==
    [][ \A w \in Workers :
          (wpc[w] = "pf_trim" /\ wpc'[w] = "top")
              => LET cutoff == wnow[w] - Window
                     old == RingSlots
                     k == count - count'
                 IN /\ k >= 0 /\ k <= count
                    /\ RingSlots' = SubSeq(old, k + 1, count)
                    /\ \A i \in 1..k : old[i].Timestamp < cutoff
                    /\ k < count => old[k + 1].Timestamp >= cutoff
                    /\ \A i \in 1..count : old[i].Timestamp = cutoff => i > k
                    /\ \A i \in 0..(k - 1) :
                          frames'[RingIdx(head, count, i)].Data = NilSlice ]_vars

\* An ingestion has ended that kept a frame whose age was exactly the window.
C29_Witness ==
    /\ count = 2
    /\ IngestComplete
    /\ mu = NoThread
    /\ RingSlots[2].Timestamp = lastFrameTime
    /\ RingSlots[1].Timestamp = lastFrameTime - Window
    /\ RingSlots[1].Data.buf # 0

\* The retained frames stamped strictly before time c.
OlderThan(c) == {i \in 1..count : RingSlots[i].Timestamp < c}

\* C30: the trim of an ingestion adds to framesTrimmed the number of retained
\* frames older than the window and takes the same number off count; storing
\* a frame leaves framesTrimmed and framesDropped alone and, in a full ring,
\* leaves count at the capacity; no other step changes the two counters.
C30_TrimCountedOverwriteNot ==
    [][ /\ \A w \in Workers :
              (wpc[w] = "pf_trim" /\ wpc'[w] = "top")
                  => LET n == Cardinality(OlderThan(wnow[w] - Window))
                     IN /\ framesTrimmed' = framesTrimmed + n
                        /\ count' = count - n
                        /\ framesDropped' = framesDropped
        /\ \A w \in Workers :
              (wpc[w] = "pf_store" /\ wpc'[w] = "pf_stamp")
                  => /\ framesTrimmed' = framesTrimmed
                     /\ framesDropped' = framesDropped
                     /\ count = Capacity => count' = Capacity
                     /\ count < Capacity => count' = count + 1
        /\ (\A w \in Workers : wpc[w] \notin {"pf_store", "pf_trim"})
              => framesTrimmed' = framesTrimmed /\ framesDropped' = framesDropped ]_vars

\* A frame has been overwritten in a full ring and another has aged out.
C30_Witness ==
    /\ framesTrimmed > 0
    /\ nextSeq > count + framesTrimmed
    /\ framesDropped = 0
    /\ IngestComplete

\* C31: the k-th payload taken from the ingress channel, which is the k-th
\* payload sent, is the frame with sequence number k - 1; sequence numbers are
\* handed out once each; timestamps do not decrease in that order; and
\* whenever sb.mu is free nextSeq equals framesProcessed.
C31_DequeueOrderIsSequence ==
    /\ \A k \in 1..Len(ingested) : ingested[k].bytes = PayloadOf(k)
    /\ nextSeq = Len(ingested)
    /\ \A k \in 1..(Len(ingested) - 1) : ingested[k].ts <= ingested[k + 1].ts
    /\ mu = NoThread => nextSeq = framesProcessed

\* The lifecycle state that the two flags stand for.
Lifecycle ==
    IF finalStopped THEN "final_stopped"
    ELSE IF running THEN "running" ELSE "created"

\* C32: a step that changes the lifecycle state takes it from created to
\* running, by a Start call's compare-and-swap, or from running to
\* final_stopped, by a Stop call; final_stopped is never left.
C32_LifecycleTransitions ==
    [][ Lifecycle' # Lifecycle =>
          \/ /\ Lifecycle = "created" /\ Lifecycle' = "running"
             /\ \E s \in StartThreads : spc[s] = "cas" /\ spc'[s] = "make"
          \/ /\ Lifecycle = "running" /\ Lifecycle' = "final_stopped"
             /\ \E t \in StopThreads : tpc'[t] # tpc[t] ]_vars

\* C33: the steps that write the ring, head, count, nextSeq or lastFrameTime
\* are taken by the thread that holds sb.mu, and the steps that read them
\* (createSnapshot, the two reads of GetMetrics) are taken while no writer
\* holds sb.mu.
C33_RingAccessUnderLock ==
    [][ /\ \A w \in Workers :
              (wpc[w] \in {"pf_store", "pf_stamp", "pf_trim"} /\ wpc'[w] # wpc[w])
                  => mu = w
        /\ \A t \in StopThreads : tdi'[t] # tdi[t] => mu = t
        /\ \A w \in Workers : (wpc[w] = "snap" /\ wpc'[w] = "deliver") => mu = NoThread
        /\ \A m \in MetricsThreads :
              (mpc[m] = "idle" /\ mpc'[m] # "idle") => mu = NoThread
        /\ \A m \in MetricsThreads :
              (mpc[m] = "last" /\ mpc'[m] = "done") => mu = NoThread ]_vars

\* The requests of caller g that are in the mailbox or in a worker's hands.
RequestsOf(g) ==
    Cardinality({k \in 1..Len(snapReq) : snapReq[k] = g})
    + Cardinality({w \in Workers : wpc[w] \in {"snap", "deliver"} /\ wreq[w] = g})

\* C34: when the request mailbox is full while a GetSnapshot call is at its
\* enqueue, the call leaves the enqueue only by its token having tripped; it
\* then returns "cancelled", its request is not put in the mailbox (the
\* mailbox is unchanged and holds no request of the caller), no snapshot is
\* built and snapshots_sent is unchanged.
C34_FullMailboxCancelled ==
    [][ \A g \in SnapThreads :
          (gpc[g] = "send" /\ Len(snapReq) = SnapReqDepth /\ gpc'[g] # "send") =>
            /\ g \in ctxDone
            /\ gpc'[g] = "done"
            /\ gres'[g] = Result("cancelled", EmptySnap)
            /\ snapReq' = snapReq
            /\ RequestsOf(g) = 0 /\ RequestsOf(g)' = 0
            /\ snapshotsSent' = snapshotsSent
            /\ wsnap' = wsnap /\ reply' = reply ]_vars

\* The call has returned "cancelled", the mailbox is full of other callers'
\* requests and no snapshot was ever sent.
C34_Witness ==
    \E g \in SnapThreads :
        /\ gpc[g] = "done" /\ gres[g].kind = "cancelled"
        /\ Len(snapReq) = SnapReqDepth /\ RequestsOf(g) = 0
        /\ snapshotsSent = 0

\* The slot written last: the one before head.
NewestIdx == (head - 1 + Capacity) % Capacity

\* C35: when processFrame returns, the frame it has just stored is still in
\* the ring (count >= 1, its slot holds its payload, timestamp and sequence
\* number); from the first completed ingestion on the ring is never empty
\* when the lock is free, and every snapshot built from then on has at least
\* one frame.
C35_NewestFrameRetained ==
    [][ /\ \A w \in Workers :
             (wpc[w] = "pf_trim" /\ wpc'[w] # "pf_trim") =>
               /\ count' >= 1
               /\ frames'[NewestIdx'].Data # NilSlice
               /\ frames'[NewestIdx'].Timestamp = wnow[w]
               /\ frames'[NewestIdx'].Sequence = nextSeq' - 1
        /\ (mu' = NoThread /\ framesProcessed' >= 1) => count' >= 1
        /\ \A w \in Workers :
             (wpc[w] = "snap" /\ wpc'[w] = "deliver" /\ framesProcessed >= 1) =>
               Len(wsnap'[w].Frames) >= 1 ]_vars

\* A second frame has been ingested a full window after the first, which the
\* trim has evicted: the newest frame alone is retained, and a snapshot built
\* afterwards holds it.
C35_Witness ==
    /\ mu = NoThread /\ framesProcessed >= 2 /\ framesTrimmed >= 1 /\ count = 1
    /\ \E w \in Workers : wpc[w] = "deliver" /\ Len(wsnap[w].Frames) = 1
                          /\ wsnap[w].Frames[1].Sequence = nextSeq - 1

\* C36: once Stop has closed the shutdown signal, a worker loop that comes
\* round to the top of its loop (having finished at most the one item it took
\* from a mailbox) returns instead of entering the select again.
C36_WorkerExitsAfterShutdown ==
    [][ \A w \in Workers :
          (closedChans # {} /\ wpc[w] = "top" /\ wpc'[w] # "top") =>
            wpc'[w] = "exit" ]_vars

\* C37: a GetSnapshot call that has passed the running check and whose token
\* is not tripped eventually returns.
C37_CallEventuallyReturns ==
    \A g \in SnapThreads :
        (gpc[g] \in {"has_shutdown", "send", "wait"} /\ g \notin ctxDone)
            ~> (gpc[g] = "done")

\* C38, for producers that stop after MaxFrames payloads: on an engine that
\* stays running, a GetSnapshot call that has passed the running check
\* eventually returns a snapshot, unless its token trips, whatever the
\* producer and the other callers put in the mailboxes meanwhile.
C38_CallEventuallyServed ==
    \A g \in SnapThreads :
        (gpc[g] \in {"has_shutdown", "send", "wait"})
            ~> (g \in ctxDone \/ (gpc[g] = "done" /\ gres[g].kind = "ok"))

\* The call has returned a snapshot with a frame while the request mailbox is
\* full of other callers' requests and the ingress mailbox holds a payload.
C38_Witness ==
    \E g \in SnapThreads :
        /\ gpc[g] = "done" /\ gres[g].kind = "ok" /\ g \notin ctxDone
        /\ Len(gres[g].snap.Frames) >= 1
        /\ Len(snapReq) = SnapReqDepth /\ input # <<>>

\* No Start call has begun and no worker exists.
NeverStarted ==
    /\ \A s \in StartThreads : spc[s] = "idle"
    /\ \A w \in Workers : wpc[w] = "none"

\* C39: a Stop call on an engine that was never started returns at once and
\* changes nothing: finalStopped stays false, no channel is closed, the ring
\* and the pool are untouched; and when the only Stop calls made were such
\* no-ops, once the Start calls made have returned the engine is running
\* with a worker spawned.
C39_StopBeforeStartIsNoop ==
    [][ /\ \A t \in StopThreads :
             (NeverStarted /\ tpc[t] = "idle" /\ tpc'[t] # "idle") =>
               /\ tpc'[t] = "noop"
               /\ ~finalStopped' /\ ~running'
               /\ UNCHANGED <<shutdown, closedChans, nchans, ringVars, memVars,
                              chanVars, metricVars, workerVars, spc, tdi, mu>>
        /\ (/\ \A t \in StopThreads : tpc'[t] \in {"idle", "noop"}
            /\ \E t \in StopThreads : tpc'[t] = "noop") =>
               /\ ~finalStopped' /\ closedChans' = {}
               /\ (/\ \E s \in StartThreads : spc'[s] = "done"
                   /\ \A s \in StartThreads : spc'[s] \in {"idle", "done"}) =>
                      (running' /\ Alive' # {}) ]_vars

\* Stop was called before Start and did nothing; Start then spawned the
\* worker, which has ingested a frame.
C39_Witness ==
    /\ \A t \in StopThreads : tpc[t] \in {"idle", "noop"}
    /\ \E t \in StopThreads : tpc[t] = "noop"
    /\ \E s \in StartThreads : spc[s] = "done" /\ wpc[s] = "select"
    /\ running /\ ~finalStopped /\ framesProcessed >= 1 /\ count >= 1

\* No Stop call has passed its CompareAndSwap.
NoStopTookEffect == \A t \in StopThreads : tpc[t] \in {"idle", "noop"}

\* A worker loop has returned.
WorkerGone == \E w \in Workers : wpc[w] = "dead"

\* C40: with the ingress channel closed and emptied, a worker in its select
\* leaves it only to return; when a worker has returned and no Stop call has
\* taken effect, the channel was closed, the engine is neither running nor
\* finalStopped, a Stop call made then returns at once, and no step changes
\* the ring, the pool or the heap: the payloads in the ring stay there.
C40_ClosedIngressStrandsRing ==
    [][ /\ \A w \in Workers :
             (inputClosed /\ input = <<>> /\ wpc[w] = "select" /\ wpc'[w] # "select")
                => wpc'[w] = "exit"
        /\ (WorkerGone /\ NoStopTookEffect) =>
             /\ inputClosed /\ ~running /\ ~finalStopped
             /\ NoStopTookEffect' /\ ~finalStopped'
             /\ UNCHANGED <<ringVars, memVars, closedChans, shutdown>> ]_vars

\* The producer closed the channel after the worker had ingested two frames;
\* the worker has returned, a Stop call made afterwards did nothing, and the
\* ring still holds the two payloads.
C40_Witness ==
    /\ inputClosed /\ WorkerGone /\ ~running /\ ~finalStopped
    /\ \E t \in StopThreads : tpc[t] = "noop"
    /\ count = 2 /\ Cardinality(RingBufs) = 2

====
